---- MODULE Spec2Model ----
(***************************************************************************)
(* Model of Monte_Carlo_simulation_csv.py: the portfolio Monte Carlo run   *)
(* started by the module's main block.                                     *)
(*                                                                         *)
(* Numbers.  Prices and values (the linear domain) are exact rationals     *)
(* with numpy's NaN added.  Log returns, their statistics, the normal      *)
(* variates and the exponent drift + stdev * Z (the log domain) are fixed  *)
(* point numbers whose unit is ln 2, with numpy's NaN and -inf added, so   *)
(* that np.exp of a finite log-domain number is a power of two.            *)
(* Grids are functions over 0-based indices, as in the source.             *)
(***************************************************************************)
EXTENDS Integers, Sequences, FiniteSets

VARIABLES
    stock_files,        \* argument: the CSV files, each the list of its rows' Open cells
    weights,            \* argument: the portfolio weights
    trials,             \* argument
    days,               \* argument
    initial_investment, \* argument
    rng,                \* np.random's global generator: its stream and the position in it
    pc,                 \* position in the code
    err,                \* the exception that ended the run, or "none"
    portfolio_values,   \* monte_carlo_simulation_portfolio: the accumulator grid
    portfolio_returns,  \* monte_carlo_simulation_portfolio: average return per stock
    i,                  \* monte_carlo_simulation_portfolio: loop index over stock_files
    opens,              \* loop body: prices of the current file
    log_returns,        \* loop body / single-stock argument
    current_price,      \* loop body / single-stock argument
    allocation,         \* single-stock argument initial_investment (= initial_investment * weights[i])
    drift,              \* single-stock local
    stdev,              \* single-stock local
    Z,                  \* single-stock local
    daily_returns,      \* single-stock local
    price_paths,        \* single-stock local
    t,                  \* single-stock loop index
    final_prices,       \* single-stock local
    stock_portfolio_values,   \* single-stock result portfolio_values
    individual_stock_returns, \* single-stock result
    calls               \* history: one record per single-stock call, completed when it returns

vars == <<stock_files, weights, trials, days, initial_investment, rng, pc, err,
          portfolio_values, portfolio_returns, i, opens, log_returns,
          current_price, allocation, drift, stdev, Z, daily_returns,
          price_paths, t, final_prices, stock_portfolio_values,
          individual_stock_returns, calls>>

(***************************************************************************)
(* Bounds of the model.                                                    *)
(***************************************************************************)
MaxDays == 3
MaxTrials == 2
MaxAssets == 2
StreamLen == 2

(***************************************************************************)
(* The linear domain: rationals n/d in lowest terms (d > 0), or NaN.       *)
(***************************************************************************)
RECURSIVE GCD(_, _)
GCD(a, b) == IF b = 0 THEN a ELSE GCD(b, a % b)

Abs(x) == IF x < 0 THEN -x ELSE x

NaN == [nan |-> TRUE, n |-> 0, d |-> 1]

Rat(n, d) ==
    LET g == GCD(Abs(n), Abs(d))
        s == IF d < 0 THEN -1 ELSE 1
    IN  [nan |-> FALSE, n |-> (s * n) \div g, d |-> (s * d) \div g]

Num(n) == Rat(n, 1)

Mul(a, b) == IF a.nan \/ b.nan THEN NaN ELSE Rat(a.n * b.n, a.d * b.d)

\* numpy division: x / 0 is NaN for x = 0 (and +-inf otherwise, which no
\* call of the program reaches: every divisor is a nonzero price).
Div(a, b) == IF a.nan \/ b.nan \/ b.n = 0 THEN NaN ELSE Rat(a.n * b.d, a.d * b.n)

Add(a, b) == IF a.nan \/ b.nan THEN NaN ELSE Rat(a.n * b.d + b.n * a.d, a.d * b.d)

Sub(a, b) == IF a.nan \/ b.nan THEN NaN ELSE Rat(a.n * b.d - b.n * a.d, a.d * b.d)

Positive(a) == ~a.nan /\ a.n > 0

(***************************************************************************)
(* The log domain: a fixed-point number (unit ln 2), NaN or -inf.          *)
(***************************************************************************)
Fin(v) == [k |-> "fin", v |-> v]
LNaN == [k |-> "nan", v |-> 0]
NegInf == [k |-> "ninf", v |-> 0]

\* a + b
AddL(a, b) ==
    IF a.k = "nan" \/ b.k = "nan" THEN LNaN
    ELSE IF a.k = "ninf" \/ b.k = "ninf" THEN NegInf
    ELSE Fin(a.v + b.v)

\* a * b, for a >= 0 or NaN (a standard deviation): 0 * -inf is NaN
MulL(a, b) ==
    IF a.k = "nan" \/ b.k = "nan" THEN LNaN
    ELSE IF b.k = "ninf" THEN (IF a.v = 0 THEN LNaN ELSE NegInf)
    ELSE Fin(a.v * b.v)

RECURSIVE Pow2(_)
Pow2(e) == IF e = 0 THEN 1 ELSE 2 * Pow2(e - 1)

RECURSIVE FloorLog2(_)
FloorLog2(n) == IF n <= 1 THEN 0 ELSE 1 + FloorLog2(n \div 2)

RECURSIVE ISqrt(_)
ISqrt(n) == IF n < 2 THEN n ELSE
    LET r == 2 * ISqrt(n \div 4) IN IF (r + 1) * (r + 1) <= n THEN r + 1 ELSE r

\* np.exp: exp(-inf) = 0, exp(NaN) = NaN, exp(v ln 2) = 2^v
NpExp(x) ==
    IF x.k = "nan" THEN NaN
    ELSE IF x.k = "ninf" THEN Num(0)
    ELSE IF x.v >= 0 THEN Rat(Pow2(x.v), 1) ELSE Rat(1, Pow2(-x.v))

\* np.log of a price ratio: NaN for a negative ratio, -inf for 0
NpLog(q) ==
    IF q.nan \/ q.n < 0 THEN LNaN
    ELSE IF q.n = 0 THEN NegInf
    ELSE Fin(FloorLog2(q.n) - FloorLog2(q.d))

(***************************************************************************)
(* numpy and scipy operations on arrays.  A 1-D array is a function over   *)
(* 0..n-1 (a list of prices and log_returns: a sequence), a 2-D array a    *)
(* function over 0..rows-1 of such rows.                                   *)
(***************************************************************************)
RECURSIVE SumL(_, _)
SumL(xs, n) == IF n = 0 THEN 0 ELSE xs[n].v + SumL(xs, n - 1)

AnyNaNL(xs) == \E j \in 1..Len(xs) : xs[j].k # "fin"

\* ndarray.mean(): NaN for an empty array (0/0, a RuntimeWarning, no exception)
NpMean(xs) ==
    IF Len(xs) = 0 \/ AnyNaNL(xs) THEN LNaN
    ELSE Fin(SumL(xs, Len(xs)) \div Len(xs))

\* ndarray.var(): the population variance, mean(|x - x.mean()|^2)
NpVar(xs) ==
    IF Len(xs) = 0 \/ AnyNaNL(xs) THEN LNaN
    ELSE LET m == NpMean(xs).v
             sq == [j \in 1..Len(xs) |-> Fin((xs[j].v - m) * (xs[j].v - m))]
         IN  Fin(SumL(sq, Len(sq)) \div Len(sq))

\* ndarray.std(): sqrt(var)
NpStd(xs) ==
    LET v == NpVar(xs) IN IF v.k # "fin" THEN LNaN ELSE Fin(ISqrt(v.v))

\* u - (0.5 * var)
Drift(u, var) ==
    IF u.k # "fin" \/ var.k # "fin" THEN LNaN ELSE Fin(u.v - (var.v \div 2))

\* np.zeros((rows, cols)); a negative dimension is a ValueError, raised by the caller
NpZeros(rows, cols) == [r \in 0..(rows - 1) |-> [c \in 0..(cols - 1) |-> Num(0)]]

\* np.mean of a 1-D array of linear-domain values
RECURSIVE SumV(_, _)
SumV(xs, n) == IF n = 0 THEN Num(0) ELSE Add(xs[n - 1], SumV(xs, n - 1))

NpMeanV(xs, n) == IF n = 0 THEN NaN ELSE Div(SumV(xs, n), Num(n))

(***************************************************************************)
(* np.random.rand and norm.ppf.  The generator is a stream of uniform      *)
(* draws from [0, 1) fixed by its state; the model's streams are periodic  *)
(* (period StreamLen, every stream of that period being an initial state)  *)
(* and a draw is one of three levels: 0 is the draw 0.0, 1 a draw below    *)
(* the median and 2 a draw above it.  rand fills its array in row-major    *)
(* order.                                                                  *)
(***************************************************************************)
Uniforms == {0, 1, 2}

Streams == [0..(StreamLen - 1) -> Uniforms]

RandCountSkippingDayZero(rows, cols) == (rows - 1) * cols

\* the number of draws np.random.rand(rows, cols) takes from the stream
RandCount(rows, cols) == rows * cols

Rand(g, rows, cols) ==
    [r \in 0..(rows - 1) |->
        [c \in 0..(cols - 1) |-> g.stream[(g.pos + r * cols + c) % StreamLen]]]

\* norm.ppf: the quantile function; ppf(0.0) = -inf
Ppf(q) == IF q = 0 THEN NegInf ELSE IF q = 1 THEN Fin(-1) ELSE Fin(1)

(***************************************************************************)
(* load_stock_data: the Open column of a CSV file is a list of cells, each *)
(* blank, the text null, or a number; rows whose Open is blank, null or 0  *)
(* are skipped and the other prices kept in file order.                    *)
(***************************************************************************)
Cell(n) == [text |-> "number", value |-> Num(n)]
Blank == [text |-> "", value |-> Num(0)]
Null == [text |-> "null", value |-> Num(0)]

Skipped(cell) == cell.text = "" \/ cell.text = "null" \/ cell.value = Num(0)

RECURSIVE load_stock_data(_)
load_stock_data(rows) ==
    IF rows = << >> THEN << >>
    ELSE IF Skipped(Head(rows)) THEN load_stock_data(Tail(rows))
    ELSE <<Head(rows).value>> \o load_stock_data(Tail(rows))

(***************************************************************************)
(* plt.hist(values, bins=30, density=True): numpy's histogram cannot find  *)
(* a range for data that is all NaN and raises ValueError; NaN among       *)
(* finite data is ignored, and so is empty data.                           *)
(***************************************************************************)
HistRaises(values, n) == n >= 1 /\ \A c \in 0..(n - 1) : values[c].nan

(***************************************************************************)
(* calculate_log_returns                                                   *)
(***************************************************************************)
calculate_log_returns(prices) ==
    [j \in 1..(Len(prices) - 1) |-> NpLog(Div(prices[j + 1], prices[j]))]

(***************************************************************************)
(* The inputs of the main block.                                           *)
(***************************************************************************)
InitialInvestment == 1000

\* The Open columns of the CSV files at hand.
Catalog ==
    << <<Cell(4), Cell(-2)>>,
       <<Cell(2), Null, Cell(4), Cell(2)>>,
       <<Cell(4), Cell(4)>>,
       <<Cell(1), Cell(4), Cell(4)>>,
       <<Cell(0), Cell(2), Blank>>,
       <<Null>> >>

StockFileLists ==
    UNION { { SubSeq(Catalog, a, a + n - 1) : a \in 1..(Len(Catalog) - n + 1) } :
            n \in 1..MaxAssets }

WeightVectors ==
    { <<Rat(1, 1)>>,
      <<Rat(1, 4), Rat(3, 4)>>,
      <<Rat(1, 2), Rat(1, 4)>>,
      <<Rat(1, 2), Rat(1, 4), Rat(1, 4)>> }

(***************************************************************************)
(* Initial state: the main block's call of monte_carlo_simulation_portfolio*)
(***************************************************************************)
Unset == << >>

Init ==
    /\ stock_files \in StockFileLists
    /\ weights \in WeightVectors
    /\ trials \in (-1)..MaxTrials
    /\ days \in (-1)..MaxDays
    /\ initial_investment = Num(InitialInvestment)
    /\ rng \in [stream : Streams, pos : {0}]
    /\ pc = "main"
    /\ err = "none"
    /\ portfolio_values = Unset
    /\ portfolio_returns = << >>
    /\ i = 0
    /\ opens = << >>
    /\ log_returns = << >>
    /\ current_price = Num(0)
    /\ allocation = Num(0)
    /\ drift = LNaN
    /\ stdev = LNaN
    /\ Z = Unset
    /\ daily_returns = Unset
    /\ price_paths = Unset
    /\ t = 0
    /\ final_prices = Unset
    /\ stock_portfolio_values = Unset
    /\ individual_stock_returns = Unset
    /\ calls = << >>

\* an exception propagates out of the run: nothing else changes
Raise(e) ==
    /\ pc' = "raised"
    /\ err' = e

inputs == <<stock_files, weights, trials, days, initial_investment>>
single_locals == <<drift, stdev, Z, daily_returns, price_paths, t, final_prices,
                   stock_portfolio_values, individual_stock_returns>>
loop_locals == <<opens, log_returns, current_price, allocation>>

(***************************************************************************)
(* monte_carlo_simulation_portfolio, lines 118-123                         *)
(***************************************************************************)
PortfolioEntry ==
    /\ pc = "main"
    /\ IF days < 0 \/ trials < 0
         THEN Raise("ValueError") /\ UNCHANGED <<portfolio_values, i>>
         ELSE /\ portfolio_values' = NpZeros(days, trials)
              /\ i' = 0
              /\ pc' = "loop"
              /\ err' = err
    /\ UNCHANGED <<inputs, rng, portfolio_returns, loop_locals, single_locals, calls>>

(***************************************************************************)
(* The loop head and lines 126-131 up to the call                          *)
(***************************************************************************)
LoadAndCall ==
    /\ pc = "loop"
    /\ i < Len(stock_files)
    /\ LET prices == load_stock_data(stock_files[i + 1]) IN
         /\ opens' = prices
         /\ log_returns' = calculate_log_returns(prices)
         /\ IF Len(prices) = 0
              THEN \* opens[-1]
                   Raise("IndexError") /\ UNCHANGED <<current_price, allocation, calls>>
              ELSE /\ current_price' = prices[Len(prices)]
                   /\ IF i >= Len(weights)
                        THEN \* weights[i]
                             Raise("IndexError") /\ UNCHANGED <<allocation, calls>>
                        ELSE /\ allocation' = Mul(initial_investment, weights[i + 1])
                             /\ calls' = Append(calls,
                                    [rng_start |-> rng.pos, returned |-> FALSE,
                                     current_price |-> prices[Len(prices)],
                                     allocation |-> Mul(initial_investment, weights[i + 1]),
                                     final_prices |-> Unset])
                             /\ pc' = "stats"
                             /\ err' = err
    /\ UNCHANGED <<inputs, rng, portfolio_values, portfolio_returns, i, single_locals>>

(***************************************************************************)
(* monte_carlo_simulation_single_stock, lines 63-66                        *)
(***************************************************************************)
Statistics ==
    /\ pc = "stats"
    /\ LET u == NpMean(log_returns)
           var == NpVar(log_returns)
       IN  /\ drift' = Drift(u, var)
           /\ stdev' = NpStd(log_returns)
    /\ pc' = "draw"
    /\ UNCHANGED <<inputs, rng, err, portfolio_values, portfolio_returns, i,
                   loop_locals, Z, daily_returns, price_paths, t, final_prices,
                   stock_portfolio_values, individual_stock_returns, calls>>

(***************************************************************************)
(* lines 69-70                                                             *)
(***************************************************************************)
DailyReturns(dr, sd, z, rows, cols) ==
    [r \in 0..(rows - 1) |->
        [c \in 0..(cols - 1) |-> NpExp(AddL(dr, MulL(sd, z[r][c])))]]

Draw ==
    /\ pc = "draw"
    /\ IF days < 0 \/ trials < 0
         THEN Raise("ValueError") /\ UNCHANGED <<rng, Z, daily_returns>>
         ELSE LET U == Rand(rng, days, trials)
                  z == [r \in 0..(days - 1) |-> [c \in 0..(trials - 1) |-> Ppf(U[r][c])]]
              IN  /\ rng' = [rng EXCEPT !.pos = @ + RandCount(days, trials)]
                  /\ Z' = z
                  /\ daily_returns' = DailyReturns(drift, stdev, z, days, trials)
                  /\ pc' = "anchor"
                  /\ err' = err
    /\ UNCHANGED <<inputs, portfolio_values, portfolio_returns, i, loop_locals,
                   drift, stdev, price_paths, t, final_prices,
                   stock_portfolio_values, individual_stock_returns, calls>>

(***************************************************************************)
(* lines 73-74                                                             *)
(***************************************************************************)
\* price_paths[0] = current_price: the scalar is broadcast over the row
SetRow(grid, r, row) == [grid EXCEPT ![r] = row]

AnchoredGrid(price, rows, cols) ==
    SetRow(NpZeros(rows, cols), 0, [c \in 0..(cols - 1) |-> price])

Anchor ==
    /\ pc = "anchor"
    /\ IF days = 0
         THEN \* index 0 is out of bounds for axis 0 with size 0
              /\ price_paths' = NpZeros(days, trials)
              /\ Raise("IndexError")
              /\ t' = t
         ELSE /\ price_paths' = AnchoredGrid(current_price, days, trials)
              /\ t' = 1
              /\ pc' = "path"
              /\ err' = err
    /\ UNCHANGED <<inputs, rng, portfolio_values, portfolio_returns, i, loop_locals,
                   drift, stdev, Z, daily_returns, final_prices,
                   stock_portfolio_values, individual_stock_returns, calls>>

(***************************************************************************)
(* lines 76-77: one iteration of the loop over t                           *)
(***************************************************************************)
\* the first value of range(1, days)
FirstStep == 1

NextRowOfFirstTrial(paths, returns, step, cols) ==
    [c \in 0..(cols - 1) |-> Mul(paths[step - 1][c], returns[step][0])]

\* price_paths[t - 1] * daily_returns[t], elementwise
NextRow(paths, returns, step, cols) ==
    [c \in 0..(cols - 1) |-> Mul(paths[step - 1][c], returns[step][c])]

TargetRowBefore(step) == step - 1

\* the row the loop body assigns
TargetRow(step) == step

\* the grid after the iterations t = 1..n of the loop
RECURSIVE PathsAfter(_, _, _, _)
PathsAfter(grid, returns, n, cols) ==
    IF n < FirstStep THEN grid
    ELSE LET g == PathsAfter(grid, returns, n - 1, cols)
         IN  SetRow(g, TargetRow(n), NextRow(g, returns, n, cols))

PathStep ==
    /\ pc = "path"
    /\ t < days
    /\ price_paths' = SetRow(price_paths, TargetRow(t),
                             NextRow(price_paths, daily_returns, t, trials))
    /\ t' = t + 1
    /\ UNCHANGED <<inputs, rng, pc, err, portfolio_values, portfolio_returns, i,
                   loop_locals, drift, stdev, Z, daily_returns, final_prices,
                   stock_portfolio_values, individual_stock_returns, calls>>

(***************************************************************************)
(* lines 79-89: the loop is over; the results and the return               *)
(***************************************************************************)
\* final_prices * (initial_investment / current_price)
ScaleFinal(prices, invested, price, cols) ==
    [c \in 0..(cols - 1) |-> Mul(prices[c], Div(invested, price))]

\* ((final_prices - current_price) / current_price) * 100
ReturnsPct(prices, price, cols) ==
    [c \in 0..(cols - 1) |-> Mul(Div(Sub(prices[c], price), price), Num(100))]

Return ==
    /\ pc = "path"
    /\ t >= days
    /\ final_prices' = price_paths[days - 1]
    /\ IF current_price.n = 0 /\ ~current_price.nan
         THEN \* initial_investment / current_price on Python floats
              /\ Raise("ZeroDivisionError")
              /\ UNCHANGED <<stock_portfolio_values, individual_stock_returns, calls>>
         ELSE /\ stock_portfolio_values' =
                    ScaleFinal(price_paths[days - 1], allocation, current_price, trials)
              /\ individual_stock_returns' =
                    ReturnsPct(price_paths[days - 1], current_price, trials)
              /\ calls' = [calls EXCEPT ![Len(calls)] =
                              [@ EXCEPT !.returned = TRUE,
                                        !.final_prices = price_paths[days - 1]]]
              /\ pc' = "accumulate"
              /\ err' = err
    /\ UNCHANGED <<inputs, rng, portfolio_values, portfolio_returns, i, loop_locals,
                   drift, stdev, Z, daily_returns, price_paths, t>>

(***************************************************************************)
(* monte_carlo_simulation_portfolio, lines 132-140                         *)
(***************************************************************************)
AccumulatedByAssignment(grid, values, rows, cols) ==
    [r \in 0..(rows - 1) |-> [c \in 0..(cols - 1) |-> values[c]]]

\* portfolio_values += stock_portfolio_values: the 1-D result is broadcast
\* over every row of the grid
Accumulated(grid, values, rows, cols) ==
    [r \in 0..(rows - 1) |-> [c \in 0..(cols - 1) |-> Add(grid[r][c], values[c])]]

Accumulate ==
    /\ pc = "accumulate"
    /\ portfolio_values' = Accumulated(portfolio_values, stock_portfolio_values, days, trials)
    /\ portfolio_returns' = Append(portfolio_returns, NpMeanV(individual_stock_returns, trials))
    /\ IF HistRaises(stock_portfolio_values, trials)
         THEN \* plot_final_stock_price_histogram
              Raise("ValueError") /\ i' = i
         ELSE /\ i' = i + 1
              /\ pc' = "loop"
              /\ err' = err
    /\ UNCHANGED <<inputs, rng, loop_locals, single_locals, calls>>

(***************************************************************************)
(* lines 144-160: after the loop                                           *)
(***************************************************************************)
Finish ==
    /\ pc = "loop"
    /\ i >= Len(stock_files)
    /\ IF days = 0
         THEN \* portfolio_values[-1, :] on a grid of no rows
              Raise("IndexError")
         ELSE IF HistRaises(portfolio_values[days - 1], trials)
         THEN \* plt.hist(final_portfolio_values, ...)
              Raise("ValueError")
         ELSE IF Len(weights) # Len(stock_files)
         THEN \* plt.pie(weights, labels=stock_symbols): 'label' must be of length 'x'
              Raise("ValueError")
         ELSE pc' = "done" /\ err' = err
    /\ UNCHANGED <<inputs, rng, portfolio_values, portfolio_returns, i, loop_locals,
                   single_locals, calls>>

Next ==
    \/ PortfolioEntry
    \/ LoadAndCall
    \/ Statistics
    \/ Draw
    \/ Anchor
    \/ PathStep
    \/ Return
    \/ Accumulate
    \/ Finish

Spec == Init /\ [][Next]_vars

(***************************************************************************)
(* Vocabulary of the properties.                                           *)
(***************************************************************************)
\* the single-stock call in progress has set its anchor row, or has just returned
Simulating == pc \in {"path", "accumulate"}

LastCall == calls[Len(calls)]

RECURSIVE SumWeights(_, _)
SumWeights(ws, n) == IF n = 0 THEN Num(0) ELSE Add(ws[n], SumWeights(ws, n - 1))

WeightsMatch == Len(weights) = Len(stock_files) /\ SumWeights(weights, Len(weights)) = Num(1)

\* every file holds a usable series: two or more prices, all positive
CleanFiles ==
    \A f \in 1..Len(stock_files) :
        LET prices == load_stock_data(stock_files[f]) IN
            /\ Len(prices) >= 2
            /\ \A j \in 1..Len(prices) : Positive(prices[j])

\* no draw of the stream is the boundary value 0.0
InteriorDraws == \A p \in DOMAIN rng.stream : rng.stream[p] # 0

\* C1: in every path simulation, from the moment row 0 is set through every
\* iteration of the recurrence and up to the return, row 0 of the price-path
\* grid equals the current price in every trial.
C1_RowZeroIsCurrentPrice ==
    Simulating =>
        /\ DOMAIN price_paths = 0..(days - 1)
        /\ \A k \in 0..(trials - 1) : price_paths[0][k] = current_price

C1_Witness ==
    /\ pc = "accumulate"
    /\ days >= 3
    /\ trials >= 2
    /\ price_paths[1][0] # current_price
    /\ price_paths[days - 1][1] # current_price

\* C2 (as claimed): for a positive current price, days >= 1, trials >= 1, a
\* finite drift and a finite stdev (here: stdev > 0), every computed entry
\* of the price-path grid is strictly positive, whatever the uniform draws
\* are.
C2_AllEntriesPositive ==
    (/\ Simulating
     /\ Positive(current_price)
     /\ drift.k = "fin"
     /\ stdev.k = "fin"
     /\ stdev.v > 0) =>
        \A r \in 0..(t - 1) : \A k \in 0..(trials - 1) : Positive(price_paths[r][k])

\* C3 (as claimed): when all assets are accumulated, with clean price series,
\* weights that match the files and sum to 1, and draws inside (0, 1), the
\* day-0 row of the portfolio grid equals the initial investment in every trial.
C3_DayZeroIsInitialInvestment ==
    (pc = "done" /\ WeightsMatch /\ CleanFiles /\ InteriorDraws) =>
        \A k \in 0..(trials - 1) : portfolio_values[0][k] = initial_investment

\* C4 (as claimed): for a portfolio of a single asset the portfolio grid is
\* the asset's price-path grid scaled by allocation / current price, on
\* every day.
C4_SingleAssetGridIsScaledPath ==
    (pc = "done" /\ Len(stock_files) = 1 /\ WeightsMatch /\ CleanFiles /\ InteriorDraws) =>
        \A r \in 0..(days - 1) : \A k \in 0..(trials - 1) :
            portfolio_values[r][k] =
                Mul(price_paths[r][k], Div(allocation, current_price))

\* C5 (as claimed): a path simulation called with a non-positive current
\* price, trials <= 0 or days <= 0 makes no random draw and returns nothing.
C5_InvalidParametersRejected ==
    (/\ Len(calls) > 0
     /\ (~Positive(LastCall.current_price) \/ trials <= 0 \/ days <= 0)) =>
        /\ rng.pos = LastCall.rng_start
        /\ ~LastCall.returned

\* C6 (as claimed): when the weights do not match the files in number, or do
\* not sum to 1 (the run being valid otherwise: clean price series, days >= 1,
\* trials >= 1), no simulation of an asset returns its values for
\* accumulation and the run does not complete.
C6_WeightMismatchSurfaced ==
    (~WeightsMatch /\ CleanFiles /\ days >= 1 /\ trials >= 1) =>
        /\ \A j \in 1..Len(calls) : ~calls[j].returned
        /\ pc # "done"

\* C7 (as claimed): the simulation of an asset whose loaded series has fewer
\* than 2 prices never runs: no path simulation (days >= 1, trials >= 1)
\* returns for such an asset, and none works from NaN statistics.
C7_InsufficientDataRejected ==
    (pc = "accumulate" /\ days >= 1 /\ trials >= 1) =>
        /\ Len(opens) >= 2
        /\ Len(log_returns) >= 1

\* the column of one trial, computed alone: from the current price, drift,
\* stdev and that trial's own variates zcol[1..r]
RECURSIVE ColumnPath(_, _, _, _, _)
ColumnPath(price, dr, sd, zcol, r) ==
    IF r = 0 THEN price
    ELSE Mul(ColumnPath(price, dr, sd, zcol, r - 1), NpExp(AddL(dr, MulL(sd, zcol[r]))))

\* the variates a call starting at stream position start gets from stream g
Variates(g, start) ==
    LET U == Rand([stream |-> g, pos |-> start], days, trials)
    IN  [r \in 0..(days - 1) |-> [c \in 0..(trials - 1) |-> Ppf(U[r][c])]]

\* the grid the call computes from the variates z
SimulatedPaths(z) ==
    PathsAfter(AnchoredGrid(current_price, days, trials),
               DailyReturns(drift, stdev, z, days, trials), days - 1, trials)

Permutations(n) ==
    { f \in [1..n -> 1..n] : \A a, b \in 1..n : f[a] = f[b] => a = b }

\* the portfolio grid when the first n completed calls are accumulated in the order f
RECURSIVE AccumulatedInOrder(_, _)
AccumulatedInOrder(f, n) ==
    IF n = 0 THEN NpZeros(days, trials)
    ELSE Accumulated(AccumulatedInOrder(f, n - 1),
                     ScaleFinal(calls[f[n]].final_prices, calls[f[n]].allocation,
                                calls[f[n]].current_price, trials),
                     days, trials)

C9_DrawsSkipDayZero ==
    (days >= 1 /\ trials >= 1) =>
        /\ (Simulating \/ pc = "anchor") =>
              rng.pos = LastCall.rng_start + (days - 1) * trials
        /\ \A j \in 1..(Len(calls) - 1) :
              calls[j + 1].rng_start = calls[j].rng_start + (days - 1) * trials

\* C9 (amended): a path simulation consumes exactly days * trials draws, one
\* variate Z[r][k] for each day r in 0..days-1 (the day-0 row included) and
\* each trial k, taken from the stream in row-major order; each asset starts
\* drawing days * trials draws after the one before it.
C9_DrawsEveryDay ==
    /\ (Simulating \/ pc = "anchor") =>
          /\ rng.pos = LastCall.rng_start + days * trials
          /\ DOMAIN Z = 0..(days - 1)
          /\ \A r \in 0..(days - 1) :
                /\ DOMAIN Z[r] = 0..(trials - 1)
                /\ \A k \in 0..(trials - 1) :
                      Z[r][k] = Ppf(rng.stream[(LastCall.rng_start + r * trials + k) % StreamLen])
    /\ \A j \in 1..(Len(calls) - 1) :
          calls[j + 1].rng_start = calls[j].rng_start + days * trials

C9_Witness ==
    /\ pc = "accumulate"
    /\ Len(calls) = 2
    /\ days >= 2
    /\ trials >= 2
    /\ LastCall.rng_start = days * trials
    /\ rng.pos = 2 * days * trials

\* the last loaded price of a file
LastPrice(rows) == LET prices == load_stock_data(rows) IN prices[Len(prices)]

\* the sum over the first n assets of terminalPrice[k] * (initial_investment * weights / currentPrice)
RECURSIVE TerminalSum(_, _)
TerminalSum(k, n) ==
    IF n = 0 THEN Num(0)
    ELSE Add(TerminalSum(k, n - 1),
             Mul(calls[n].final_prices[k],
                 Div(Mul(initial_investment, weights[n]), LastPrice(stock_files[n]))))

\* C10: at every loop head, and so when all assets are processed, the last
\* row of the portfolio grid is, in each trial k, the sum over the assets
\* processed so far of terminalPrice_i[k] * (initial_investment * weights[i]
\* / currentPrice_i), each asset counted once, starting from zero; the
\* terminal prices are the last row of the asset's price-path grid.
C10_FinalValueIsWeightedSum ==
    /\ (pc \in {"loop", "done"} /\ days >= 1) =>
          /\ Len(calls) = i
          /\ pc = "done" => i = Len(stock_files)
          /\ \A k \in 0..(trials - 1) : portfolio_values[days - 1][k] = TerminalSum(k, i)
    /\ pc = "accumulate" =>
          /\ LastCall.returned
          /\ LastCall.final_prices = price_paths[days - 1]

C10_Witness ==
    /\ pc = "done"
    /\ Len(stock_files) = 2
    /\ days >= 2
    /\ trials >= 2
    /\ calls[1].current_price # calls[2].current_price
    /\ Positive(portfolio_values[days - 1][0])
    /\ portfolio_values[days - 1][0] # initial_investment
    /\ portfolio_values[days - 1][0] # portfolio_values[days - 1][1]

====
